---- MODULE Spec2Model ----
(***************************************************************************)
(* German Word Extractor (app.js and its two sibling variants).            *)
(*                                                                         *)
(* Spec is the page of src/app.js, SpecRetry the page of part_000 (retry,   *)
(* status line, translating download), SpecPlain the page of part_001 (no  *)
(* translation); SpecExtract is one call of extractStructuredWords, which  *)
(* the three files share but for the size of ARTICLES.  SpecNet is the     *)
(* page of part_000 with its requests recorded and its status line left    *)
(* out, and SpecFair is SpecNet with every suspended Translate handler     *)
(* resumed in the end; SpecCsv is doDownload on an entry list.  A step of  *)
(* a page                                                                  *)
(* is one task of the event loop: a handler runs until it has to wait for  *)
(* the network or a timer, since awaiting a cached translation only yields *)
(* to microtasks.  Button labels ('Copied') and alerts are left out.       *)
(*                                                                         *)
(* Texts are sequences of code points; a code point is written as a        *)
(* one-character string, or as "U+XXXX" for a non-ASCII one.  Words,       *)
(* keys and display strings are sequences of code points as well, so       *)
(* that string concatenation, lowercasing and the regular expression are   *)
(* modelled by what they do.                                               *)
(***************************************************************************)
EXTENDS Integers, Sequences, FiniteSets, Bags, TLC

VARIABLES
    variant,        \* which of the three source files is running
    arg,            \* extractStructuredWords: the argument `text`
    pc,             \* extractStructuredWords: position in the call
    matches,        \* extractStructuredWords: const matches
    items,          \* extractStructuredWords: const items
    unique,         \* extractStructuredWords: const unique (the return value)
    threw,          \* extractStructuredWords: an exception left the call
    wordRegexLastIndex, \* wordRegex.lastIndex (the regex carries the g flag)
    inputValue,     \* input.value
    outputValue,    \* output.value
    metaText,       \* meta.textContent
    statusText,     \* statusEl.textContent with its class
    statusTimer,    \* showStatus._t is pending
    currentStructured, \* let currentStructured
    translationCache,  \* const translationCache (a Map)
    translateDisabled, \* translateBtn.disabled
    downloadDisabled,  \* downloadCsvBtn.disabled
    copyDisabled,      \* copyBtn.disabled
    copyExcelDisabled, \* copyExcelBtn.disabled
    runs,           \* the bag of async click handlers suspended at an await
    exported,       \* what the step just taken wrote (file or clipboard)
    net,            \* what the step just taken did with the translation service
    callLog,        \* history: <<text, result>> of the calls of extractStructuredWords
    watch           \* which output of the program this run records

callVars == <<arg, pc, matches, items, unique, threw>>
uiVars == <<inputValue, outputValue, metaText, statusText, statusTimer,
            currentStructured, translationCache, translateDisabled,
            downloadDisabled, copyDisabled, copyExcelDisabled, runs, exported,
            net, callLog>>
vars == <<variant, watch, wordRegexLastIndex, callVars, uiVars>>

----------------------------------------------------------------------------
(* Bounds of the model *)

\* longest input text, in pieces of InputPieces
MaxPieces == 4

\* click handlers that may be suspended at an await at the same time
MaxRuns == 2

\* longest entry list handed to doDownload on its own
MaxEntries == 2

----------------------------------------------------------------------------
(* Code points and String.prototype.toLowerCase *)

LowerLetters == {"a","b","c","d","e","f","h","i","k","l","m","n","r","s","t","u","z","U+00FC"}
UpperLetters == {"A","B","C","D","E","F","H","I","K","L","M","N","R","S","T","U","Z","U+00DC"}

\* <<upper, lower>> of the cased letters of the alphabet
CasePairs == { <<"A","a">>, <<"B","b">>, <<"C","c">>, <<"D","d">>, <<"E","e">>, <<"F","f">>, <<"H","h">>,
               <<"I","i">>, <<"K","k">>, <<"L","l">>, <<"M","m">>, <<"N","n">>,
               <<"R","r">>, <<"S","s">>, <<"T","t">>, <<"U","u">>, <<"Z","z">>, <<"U+00DC","U+00FC">> }

\* \p{L}
IsLetter(c) == c \in LowerLetters \cup UpperLetters
\* \p{Mn}: U+0308 COMBINING DIAERESIS
IsMark(c) == c \in {"U+0308"}
\* [\p{L}\p{Mn}\-']
IsWordTail(c) == IsLetter(c) \/ IsMark(c) \/ c \in {"-", "'"}

LowerChar(c) ==
    IF \E p \in CasePairs : p[1] = c
    THEN (CHOOSE p \in CasePairs : p[1] = c)[2]
    ELSE c

toLowerCase(s) == [k \in 1..Len(s) |-> LowerChar(s[k])]

----------------------------------------------------------------------------
(* const ARTICLES *)

ArticlesFull ==
    { <<"d","e","r">>,
      <<"d","i","e">>,
      <<"d","a","s">>,
      <<"d","e","n">>,
      <<"d","e","m">>,
      <<"d","e","s">>,
      <<"e","i","n">>,
      <<"e","i","n","e">>,
      <<"e","i","n","e","n">>,
      <<"e","i","n","e","m">>,
      <<"e","i","n","e","r">>,
      <<"e","i","n","e","s">>,
      <<"k","e","i","n">>,
      <<"k","e","i","n","e">>,
      <<"k","e","i","n","e","n">>,
      <<"k","e","i","n","e","m">>,
      <<"k","e","i","n","e","r">>,
      <<"k","e","i","n","e","s">> }

ArticlesDefinite == { <<"d","e","r">>, <<"d","i","e">>, <<"d","a","s">> }

Variants == {"app.js", "part_000", "part_001"}

\* the set named ARTICLES in the running file
ARTICLES == IF variant = "part_001" THEN ArticlesDefinite ELSE ArticlesFull

----------------------------------------------------------------------------
(* JavaScript values handed to extractStructuredWords *)

\* the value `undefined` of a property an object does not have
Undefined == <<"(undefined)">>

JSString(chars) == [type |-> "string", chars |-> chars, num |-> 0, bool |-> FALSE]

NonStrings ==
    { [type |-> "null",      chars |-> <<>>, num |-> 0,  bool |-> FALSE],
      [type |-> "undefined", chars |-> <<>>, num |-> 0,  bool |-> FALSE],
      [type |-> "number",    chars |-> <<>>, num |-> 0,  bool |-> FALSE],
      [type |-> "number",    chars |-> <<>>, num |-> 42, bool |-> FALSE],
      [type |-> "boolean",   chars |-> <<>>, num |-> 0,  bool |-> FALSE],
      [type |-> "boolean",   chars |-> <<>>, num |-> 0,  bool |-> TRUE],
      [type |-> "object",    chars |-> <<>>, num |-> 0,  bool |-> FALSE],
      [type |-> "array",     chars |-> <<>>, num |-> 0,  bool |-> FALSE] }

\* ToBoolean, as `!text` applies it
ToBoolean(v) ==
    CASE v.type = "string"  -> Len(v.chars) > 0
      [] v.type = "number"  -> v.num # 0
      [] v.type = "boolean" -> v.bool
      [] v.type \in {"object", "array"} -> TRUE
      [] OTHER -> FALSE

\* only a string has a matchAll method; calling the missing method of any
\* other truthy value raises a TypeError
HasMatchAll(v) == v.type = "string"

----------------------------------------------------------------------------
(* Input texts *)

InputPieces ==
    << <<"d","e","r"," ">>,
       <<"D","i","e"," ">>,
       <<"e","i","n"," ">>,
       <<"h","u","n","d"," ">>,
       <<"H","u","n","d"," ">>,
       <<"d","e","r">>,
       <<"-">>,
       <<"1">> >>

ExampleLief == <<"D","e","r"," ","H","u","n","d"," ","l","i","e","f",".">>
ExampleHund == <<"H","u","n","d"," ","h","u","n","d"," ","D","E","R"," ","H","u","n","d">>
ExampleKatze == <<"d","e","r"," ","d","i","e"," ","k","a","t","z","e">>
ExampleMarks == <<"-","U+00DC","U+0308","'","1","d","e","r","'","-"," ","'","d","i","e">>

ExampleDigit == <<"a","b","1","c","d">>

ExampleTexts == {ExampleLief, ExampleHund, ExampleKatze, ExampleMarks, ExampleDigit}

RECURSIVE Flatten(_)
Flatten(ss) == IF ss = <<>> THEN <<>> ELSE Head(ss) \o Flatten(Tail(ss))

PieceTexts ==
    { Flatten([k \in 1..Len(ps) |-> InputPieces[ps[k]]]) :
        ps \in UNION { [1..n -> 1..Len(InputPieces)] : n \in 0..MaxPieces } }

Texts == PieceTexts \cup ExampleTexts

Args == { JSString(t) : t \in Texts } \cup NonStrings

----------------------------------------------------------------------------
(* text.matchAll(wordRegex) *)

\* RunEnd of the pattern \p{L}+, which stops at a mark, hyphen or apostrophe
RECURSIVE RunEndLettersOnly(_, _)
RunEndLettersOnly(text, p) ==
    IF p + 1 <= Len(text) /\ IsLetter(text[p + 1])
    THEN RunEndLettersOnly(text, p + 1)
    ELSE p

\* the last index of the greedy run [\p{L}\p{Mn}\-']* that starts after p
RECURSIVE RunEnd(_, _)
RunEnd(text, p) ==
    IF p + 1 <= Len(text) /\ IsWordTail(text[p + 1])
    THEN RunEnd(text, p + 1)
    ELSE p

\* the matches found from index p (1-based) on, left to right
RECURSIVE MatchFrom(_, _)
MatchFrom(text, p) ==
    IF p > Len(text) THEN <<>>
    ELSE IF ~IsLetter(text[p]) THEN MatchFrom(text, p + 1)
    ELSE LET e == RunEnd(text, p)
         IN  <<SubSeq(text, p, e)>> \o MatchFrom(text, e + 1)

\* matchAll works on a clone of the regex that starts at the original's
\* lastIndex (0-based); the original is left as it was
matchAll(text, lastIndex) == MatchFrom(text, lastIndex + 1)

lastIndexAfterMatchAll(text, lastIndex) == lastIndex

----------------------------------------------------------------------------
(* The pairing loop *)

HasEnglish == variant # "part_001"

PairedEntry(w, next) ==
    [article |-> w, noun |-> next, display |-> w \o <<" ">> \o next,
     english |-> IF HasEnglish THEN <<>> ELSE Undefined]

\* BareEntry that fills english from translationCache
BareEntryCached(w) ==
    [article |-> <<>>, noun |-> w, display |-> w,
     english |-> IF \E e \in translationCache : e[1] = w
                 THEN (CHOOSE e \in translationCache : e[1] = w)[2]
                 ELSE <<>>]

BareEntry(w) ==
    [article |-> <<>>, noun |-> w, display |-> w,
     english |-> IF HasEnglish THEN <<>> ELSE Undefined]

\* ScanStep without `i++; // skip next`
ScanStepNoSkip(m, i) ==
    LET w == toLowerCase(m[i])
    IN  IF w \in ARTICLES /\ i + 1 <= Len(m)
        THEN [push |-> <<PairedEntry(w, toLowerCase(m[i + 1]))>>, next |-> i + 1]
        ELSE [push |-> <<BareEntry(w)>>, next |-> i + 1]

\* ScanStep that pushes nothing for a determiner with no next word
ScanStepDropLast(m, i) ==
    LET w == toLowerCase(m[i])
    IN  IF w \in ARTICLES
        THEN IF i + 1 <= Len(m)
             THEN [push |-> <<PairedEntry(w, toLowerCase(m[i + 1]))>>, next |-> i + 2]
             ELSE [push |-> <<>>, next |-> i + 1]
        ELSE [push |-> <<BareEntry(w)>>, next |-> i + 1]

\* ScanStep that stores the next word as it is written
ScanStepRawNoun(m, i) ==
    LET w == toLowerCase(m[i])
    IN  IF w \in ARTICLES /\ i + 1 <= Len(m)
        THEN [push |-> <<PairedEntry(w, m[i + 1])>>, next |-> i + 2]
        ELSE [push |-> <<BareEntry(w)>>, next |-> i + 1]

\* ScanStep that looks the word up in ARTICLES as it is written
ScanStepCaseSensitive(m, i) ==
    LET w == toLowerCase(m[i])
    IN  IF m[i] \in ARTICLES /\ i + 1 <= Len(m)
        THEN [push |-> <<PairedEntry(w, toLowerCase(m[i + 1]))>>, next |-> i + 2]
        ELSE [push |-> <<BareEntry(w)>>, next |-> i + 1]

\* one iteration of the loop at index i (1-based): what it pushes and the
\* index of the next iteration
ScanStep(m, i) ==
    LET w == toLowerCase(m[i])
    IN  IF w \in ARTICLES /\ i + 1 <= Len(m)
        THEN [push |-> <<PairedEntry(w, toLowerCase(m[i + 1]))>>, next |-> i + 2]
        ELSE [push |-> <<BareEntry(w)>>, next |-> i + 1]

RECURSIVE ScanFrom(_, _)
ScanFrom(m, i) ==
    IF i > Len(m) THEN <<>>
    ELSE LET st == ScanStep(m, i) IN st.push \o ScanFrom(m, st.next)

----------------------------------------------------------------------------
(* Deduplication *)

\* key without the separating space
keyNoSpace(it) == it.article \o it.noun

key(it) == (IF it.article # <<>> THEN it.article \o <<" ">> ELSE <<>>) \o it.noun

RECURSIVE DedupFrom(_, _, _)
DedupFrom(its, k, seen) ==
    IF k > Len(its) THEN <<>>
    ELSE IF key(its[k]) \notin seen
         THEN <<its[k]>> \o DedupFrom(its, k + 1, seen \cup {key(its[k])})
         ELSE DedupFrom(its, k + 1, seen)

\* Dedupe whose seen set is never filled
DedupeNone(its) == its

\* Dedupe that keeps the last entry of a key instead of the first
DedupeKeepLast(its) ==
    LET kept == { k \in 1..Len(its) :
                    \A j \in (k + 1)..Len(its) : key(its[j]) # key(its[k]) }
        Nth(n) == CHOOSE k \in kept : Cardinality({ j \in kept : j < k }) = n - 1
    IN  [n \in 1..Cardinality(kept) |-> its[Nth(n)]]

Dedupe(its) == DedupFrom(its, 1, {})

----------------------------------------------------------------------------
(* extractStructuredWords(text): the value returned, or the exception *)

extractStructuredWords(v, lastIndex) ==
    IF ~ToBoolean(v) THEN [threw |-> FALSE, value |-> <<>>]
    ELSE IF ~HasMatchAll(v) THEN [threw |-> TRUE, value |-> <<>>]
    ELSE [threw |-> FALSE,
          value |-> Dedupe(ScanFrom(matchAll(v.chars, lastIndex), 1))]

----------------------------------------------------------------------------
(* The page as the script leaves it after loading *)

\* callLog and the status line are written and never read by the program:
\* a run records one of them and leaves the other as it was, or records
\* neither ("net"); the requests (net) are recorded in every run
Watched == {"calls", "status", "net"}

NoStatus == [kind |-> "", noun |-> <<>>, n |-> 0]
NoExport == [kind |-> "", rows |-> <<>>, text |-> <<>>]
\* meta.textContent = ''
NoMeta == [count |-> -1, translated |-> -1]

\* a click handler suspended at an await: the loop it runs (kind), its list of
\* nouns, the index of the noun translateNoun is working on, the attempt of
\* translateNoun's loop, whether it awaits fetch or the backoff timer, and the
\* delay of that timer in ms
NoRun == [kind |-> "", nouns |-> <<>>, i |-> 0, attempt |-> 0, pc |-> "", delay |-> 0]

\* net when the step did not run a translation loop
NoNet == [kind |-> "", run |-> NoRun, outcome |-> "", sent |-> <<>>, hits |-> <<>>,
          done |-> FALSE]

\* The script disables the download and the two copy buttons itself; it leaves
\* translateBtn as the page declares it, and a button is enabled unless the
\* page says otherwise.
UIInitial ==
    /\ wordRegexLastIndex = 0
    /\ inputValue = <<>>
    /\ outputValue = <<>>
    /\ metaText = NoMeta
    /\ statusText = NoStatus
    /\ statusTimer = FALSE
    /\ currentStructured = <<>>
    /\ translationCache = {}
    /\ translateDisabled = FALSE
    /\ downloadDisabled = TRUE
    /\ copyDisabled = TRUE
    /\ copyExcelDisabled = TRUE
    /\ runs = EmptyBag
    /\ exported = NoExport
    /\ net = NoNet
    /\ callLog = {}

----------------------------------------------------------------------------
(* One call of extractStructuredWords, statement by statement *)

ExtractInit ==
    /\ variant \in Variants
    /\ arg \in Args
    /\ pc = "call"
    /\ matches = <<>>
    /\ items = <<>>
    /\ unique = <<>>
    /\ threw = FALSE
    /\ watch = "calls"
    /\ UIInitial

\* if (!text) return [];
ReturnEmpty ==
    /\ pc = "call"
    /\ ~ToBoolean(arg)
    /\ pc' = "returned"
    /\ unique' = <<>>
    /\ UNCHANGED <<variant, watch, wordRegexLastIndex, arg, matches, items, threw, uiVars>>

\* text.matchAll is not a function
ThrowTypeError ==
    /\ pc = "call"
    /\ ToBoolean(arg)
    /\ ~HasMatchAll(arg)
    /\ pc' = "threw"
    /\ threw' = TRUE
    /\ UNCHANGED <<variant, watch, wordRegexLastIndex, arg, matches, items, unique, uiVars>>

\* const matches = Array.from(text.matchAll(wordRegex), m => m[0]);
Tokenize ==
    /\ pc = "call"
    /\ ToBoolean(arg)
    /\ HasMatchAll(arg)
    /\ matches' = matchAll(arg.chars, wordRegexLastIndex)
    /\ wordRegexLastIndex' = lastIndexAfterMatchAll(arg.chars, wordRegexLastIndex)
    /\ pc' = "scan"
    /\ UNCHANGED <<variant, watch, arg, items, unique, threw, uiVars>>

\* the for loop over matches
Scan ==
    /\ pc = "scan"
    /\ items' = ScanFrom(matches, 1)
    /\ pc' = "dedup"
    /\ UNCHANGED <<variant, watch, wordRegexLastIndex, arg, matches, unique, threw, uiVars>>

\* the for loop over items; return unique
Deduplicate ==
    /\ pc = "dedup"
    /\ unique' = Dedupe(items)
    /\ pc' = "returned"
    /\ UNCHANGED <<variant, watch, wordRegexLastIndex, arg, matches, items, threw, uiVars>>

ExtractNext == ReturnEmpty \/ ThrowTypeError \/ Tokenize \/ Scan \/ Deduplicate

SpecExtract == ExtractInit /\ [][ExtractNext]_vars

----------------------------------------------------------------------------
(* The page: helpers of the click handlers *)

HasTranslate == variant # "part_001"
HasStatus == variant = "part_000" /\ watch = "status"

\* maxAttempts of a retry loop that tries once more
maxAttemptsThree == IF variant = "part_000" THEN 3 ELSE 1

\* const maxAttempts (app.js makes its one request without a retry loop)
maxAttempts == IF variant = "part_000" THEN 2 ELSE 1

\* the texts a user types into the input field
UITexts == { <<>>, <<"H","u","n","d">>, <<"d","e","r"," ","H","u","n","d"," ","K","a","t","z","e">> }

\* the code points '"', line feed, carriage return and tab
DQUOTE == "U+0022"
LF == "U+000A"
CR == "U+000D"
TAB == "U+0009"

\* WhiteSpace and LineTerminator of ECMAScript, the code points trim strips:
\* tab, line feed, vertical tab, form feed, carriage return, space,
\* no-break space, the other space separators (Zs), the line and paragraph
\* separators and the byte order mark
WhiteSpace ==
    { TAB, LF, "U+000B", "U+000C", CR, " ", "U+00A0", "U+1680",
      "U+2000", "U+2001", "U+2002", "U+2003", "U+2004", "U+2005", "U+2006",
      "U+2007", "U+2008", "U+2009", "U+200A", "U+2028", "U+2029", "U+202F",
      "U+205F", "U+3000", "U+FEFF" }

\* the translatedText of a response of the translation service
Responses == { <<TAB,"U+00A0","d","o","g"," ",LF>>, <<>> }

RECURSIVE TrimLeft(_)
TrimLeft(s) == IF s # <<>> /\ Head(s) \in WhiteSpace THEN TrimLeft(Tail(s)) ELSE s

RECURSIVE TrimRight(_)
TrimRight(s) ==
    IF s # <<>> /\ s[Len(s)] \in WhiteSpace
    THEN TrimRight(SubSeq(s, 1, Len(s) - 1))
    ELSE s

\* String.prototype.trim
trim(s) == TrimRight(TrimLeft(s))

RECURSIVE Join(_, _)
Join(ss, sep) ==
    IF ss = <<>> THEN <<>>
    ELSE IF Len(ss) = 1 THEN ss[1]
    ELSE ss[1] \o sep \o Join(Tail(ss), sep)

\* a string is truthy when it is not empty; a missing property is not
Truthy(str) == str # <<>> /\ str # Undefined

\* translationCache.has / get / set
CacheHas(cache, noun) == \E e \in cache : e[1] = noun
CacheGet(cache, noun) == (CHOOSE e \in cache : e[1] = noun)[2]
CacheSet(cache, noun, eng) == { e \in cache : e[1] # noun } \cup { <<noun, eng>> }

\* Array.from(new Set(list)): first occurrences, in order
RECURSIVE UniqueFrom(_, _, _)
UniqueFrom(list, k, seen) ==
    IF k > Len(list) THEN <<>>
    ELSE IF list[k] \notin seen
         THEN <<list[k]>> \o UniqueFrom(list, k + 1, seen \cup {list[k]})
         ELSE UniqueFrom(list, k + 1, seen)

NounsOf(cs) == UniqueFrom([k \in 1..Len(cs) |-> cs[k].noun], 1, {})

\* structured.filter(s => !s.english)
RECURSIVE Missing(_)
Missing(cs) ==
    IF cs = <<>> THEN <<>>
    ELSE (IF Truthy(Head(cs).english) THEN <<>> ELSE <<Head(cs)>>) \o Missing(Tail(cs))

\* MapBack that writes the translation into item.noun
MapBackNoun(cs, n, eng) ==
    [k \in 1..Len(cs) |-> IF cs[k].noun = n THEN [cs[k] EXCEPT !.noun = eng] ELSE cs[k]]

\* for (const item of currentStructured) if (item.noun === n) item.english = eng;
MapBack(cs, n, eng) ==
    [k \in 1..Len(cs) |-> IF cs[k].noun = n THEN [cs[k] EXCEPT !.english = eng] ELSE cs[k]]

\* output.value as updateUI writes it
OutputOf(cs) ==
    Join([k \in 1..Len(cs) |->
            cs[k].display \o (IF HasTranslate /\ Truthy(cs[k].english)
                              THEN <<" ", "U+2014", " ">> \o cs[k].english
                              ELSE <<>>)],
         <<",", " ">>)

\* meta.textContent as updateUI writes it
MetaOf(cs) ==
    [count |-> Len(cs),
     translated |-> IF HasTranslate
                    THEN Cardinality({k \in 1..Len(cs) : Truthy(cs[k].english)})
                    ELSE -1]

\* the rows [English, GermanNoun, Article, ExampleSentence] of an export
RowsOf(cs) ==
    [k \in 1..Len(cs) |->
        << IF HasTranslate /\ Truthy(cs[k].english) THEN cs[k].english ELSE <<>>,
           cs[k].noun, cs[k].article, <<>> >>]

\* updateUI(structured), but for translateBtn.disabled
updateUI(structured) ==
    /\ outputValue' = OutputOf(structured)
    /\ metaText' = MetaOf(structured)
    /\ downloadDisabled' = (Len(structured) = 0)
    /\ copyDisabled' = (Len(structured) = 0)
    /\ copyExcelDisabled' = (Len(structured) = 0)

noUpdateUI ==
    UNCHANGED <<outputValue, metaText, downloadDisabled, copyDisabled, copyExcelDisabled>>

\* the value of a call extractStructuredWords(input.value)
Extracted == extractStructuredWords(JSString(inputValue), wordRegexLastIndex).value

Logged ==
    IF watch = "calls" THEN callLog \cup { <<inputValue, Extracted>> } ELSE callLog

callIdle == UNCHANGED <<arg, pc, matches, items, unique, threw>>

----------------------------------------------------------------------------
(* The loop `for (i ...) { eng = await translateNoun(n); map back; updateUI }` *)

\* Advance when translateNoun does not look its noun up in translationCache
AdvanceNoCache(cache, cs, nouns, i) ==
    IF i > Len(nouns) THEN [cs |-> cs, i |-> i, done |-> TRUE]
    ELSE [cs |-> cs, i |-> i, done |-> FALSE]

\* runs the loop from index i (1-based) for as long as translateNoun answers
\* from the cache: no task of the event loop runs between two such iterations
RECURSIVE Advance(_, _, _, _)
Advance(cache, cs, nouns, i) ==
    IF i > Len(nouns) THEN [cs |-> cs, i |-> i, done |-> TRUE]
    ELSE IF CacheHas(cache, nouns[i])
         THEN Advance(cache, MapBack(cs, nouns[i], CacheGet(cache, nouns[i])), nouns, i + 1)
         ELSE [cs |-> cs, i |-> i, done |-> FALSE]

StatusTranslating(i, noun) == [kind |-> "translating", noun |-> noun, n |-> i]
StatusError(noun) == [kind |-> "error", noun |-> noun, n |-> 0]
StatusComplete == [kind |-> "complete", noun |-> <<>>, n |-> 0]
StatusCsvReady == [kind |-> "csv ready", noun |-> <<>>, n |-> 0]

\* the handlers other than the one that is running (NoRun: it has just started)
Others(self) == IF self = NoRun THEN runs ELSE runs (-) SetToBag({self})

\* const header
CsvHeader ==
    << <<"E","n","g","l","i","s","h">>,
       <<"G","e","r","m","a","n","N","o","u","n">>,
       <<"A","r","t","i","c","l","e">>,
       <<"E","x","a","m","p","l","e","S","e","n","t","e","n","c","e">> >>

\* str.replace(/"/g, '""')
RECURSIVE EscapeQuotes(_)
EscapeQuotes(str) ==
    IF str = <<>> THEN <<>>
    ELSE (IF Head(str) = DQUOTE THEN <<DQUOTE, DQUOTE>> ELSE <<Head(str)>>)
            \o EscapeQuotes(Tail(str))

\* CsvField that wraps a field in quotes without doubling the quotes inside
CsvFieldNoEscape(str) ==
    IF \E k \in 1..Len(str) : str[k] \in {DQUOTE, ",", LF}
    THEN <<DQUOTE>> \o str \o <<DQUOTE>>
    ELSE str

\* /[",\n]/.test(escaped) ? `"${escaped}"` : escaped
CsvField(str) ==
    LET escaped == EscapeQuotes(str)
    IN  IF \E k \in 1..Len(escaped) : escaped[k] \in {DQUOTE, ",", LF}
        THEN <<DQUOTE>> \o escaped \o <<DQUOTE>>
        ELSE escaped

\* all.map(cols => cols.map(...).join(',')).join('\n')
CsvOf(all) ==
    Join([r \in 1..Len(all) |->
            Join([c \in 1..Len(all[r]) |-> CsvField(all[r][c])], <<",">>)],
         <<LF>>)

\* lines.join('\n') of the lines [...].join('\t')
TsvOf(rows) ==
    Join([r \in 1..Len(rows) |-> Join(rows[r], <<TAB>>)], <<LF>>)

\* doDownload(structuredFinal); app.js and part_001 have the same lines in
\* their click handlers
doDownload(structuredFinal) ==
    [kind |-> "csv", rows |-> RowsOf(structuredFinal),
     text |-> CsvOf(<<CsvHeader>> \o RowsOf(structuredFinal))]

\* A handler of the given kind runs its loop from index i until it has to wait
\* for the network or is done.  tdBase: translateBtn.disabled when the loop is
\* entered; touched: updateUI has run in this task already; timerBase:
\* showStatus._t is pending when the loop is entered; self: the handler as it
\* was suspended (NoRun: a handler just started); outcome: what the request
\* the handler was waiting for came to ("" when it was not waiting,
\* "undefined" when translateNoun returned nothing and i is the next index).
Proceed(kind, cache, cs, nouns, i, tdBase, touched, timerBase, self, outcome) ==
    LET adv == Advance(cache, cs, nouns, i)
        iterated == adv.i > i
        td == IF iterated THEN Len(adv.cs) = 0 ELSE tdBase
        \* the first call of translateNoun in this task that found its noun cached
        first == IF self = NoRun \/ outcome = "undefined" THEN i ELSE i + 1
    IN  /\ currentStructured' = adv.cs
        /\ net' = [kind |-> kind, run |-> self, outcome |-> outcome,
                   sent |-> IF adv.done THEN <<>> ELSE << <<nouns[adv.i], 1>> >>,
                   hits |-> SubSeq(nouns, first, adv.i - 1),
                   done |-> adv.done]
        /\ IF touched \/ iterated THEN updateUI(adv.cs) ELSE noUpdateUI
        /\ IF adv.done
           THEN /\ runs' = Others(self)
                /\ translateDisabled' = IF kind = "translate" THEN FALSE ELSE td
                /\ statusText' = IF ~HasStatus THEN statusText
                                 ELSE IF kind = "translate" THEN StatusComplete
                                 ELSE StatusCsvReady
                /\ statusTimer' = IF HasStatus THEN TRUE ELSE statusTimer
                /\ exported' = IF kind = "download" THEN doDownload(adv.cs) ELSE NoExport
           ELSE /\ runs' = Others(self) (+)
                                SetToBag({[kind |-> kind, nouns |-> nouns, i |-> adv.i,
                                           attempt |-> 1, pc |-> "fetch",
                                           delay |-> 0]})
                /\ translateDisabled' = td
                /\ statusText' = IF HasStatus
                                 THEN StatusTranslating(adv.i, nouns[adv.i])
                                 ELSE statusText
                /\ statusTimer' = timerBase
                /\ exported' = NoExport

----------------------------------------------------------------------------
(* The page: events *)

PageInit ==
    /\ arg = JSString(<<>>)
    /\ pc = "idle"
    /\ matches = <<>>
    /\ items = <<>>
    /\ unique = <<>>
    /\ threw = FALSE
    /\ UIInitial

\* src/app.js
Init == variant = "app.js" /\ watch = "calls" /\ PageInit

\* src/unnamed/part_000; the status line is what its runs record
InitRetry == variant = "part_000" /\ watch = "status" /\ PageInit

\* src/unnamed/part_000 with neither callLog nor the status line recorded
InitNet == variant = "part_000" /\ watch = "net" /\ PageInit

\* src/unnamed/part_001
InitPlain == variant = "part_001" /\ watch = "calls" /\ PageInit

\* wordRegex.lastIndex after a call extractStructuredWords(input.value)
LastIndexAfterCall ==
    IF inputValue # <<>>
    THEN lastIndexAfterMatchAll(inputValue, wordRegexLastIndex)
    ELSE wordRegexLastIndex

\* the user edits the input field
EditInput(t) ==
    /\ inputValue' = t
    /\ inputValue # t
    /\ UNCHANGED <<variant, watch, wordRegexLastIndex, outputValue, metaText, statusText,
                   statusTimer, currentStructured, translationCache, translateDisabled,
                   downloadDisabled, copyDisabled, copyExcelDisabled, runs, callLog>>
    /\ exported' = NoExport
    /\ net' = NoNet
    /\ callIdle

\* extractBtn click: extract(), or in part_001 the handler's own two lines
ExtractClick ==
    /\ callLog' = Logged
    /\ wordRegexLastIndex' = LastIndexAfterCall
    /\ updateUI(Extracted)
    /\ IF HasTranslate
       THEN /\ currentStructured' = Extracted
            /\ translateDisabled' = (Len(Extracted) = 0)
       ELSE UNCHANGED <<currentStructured, translateDisabled>>
    /\ UNCHANGED <<variant, watch, inputValue, statusText, statusTimer, translationCache,
                   runs>>
    /\ exported' = NoExport
    /\ net' = NoNet
    /\ callIdle

\* translateBtn click, up to the first await that waits for the network
TranslateClick ==
    /\ HasTranslate
    /\ ~translateDisabled
    /\ BagCardinality(runs) < MaxRuns
    /\ LET need == Len(currentStructured) = 0
           cs0 == IF need THEN Extracted ELSE currentStructured
       IN  /\ callLog' = IF need THEN Logged ELSE callLog
           /\ wordRegexLastIndex' = IF need THEN LastIndexAfterCall ELSE wordRegexLastIndex
           /\ IF Len(cs0) = 0
              THEN /\ currentStructured' = cs0
                   /\ updateUI(cs0)
                   /\ translateDisabled' = FALSE
                   /\ UNCHANGED <<runs, statusText, statusTimer>>
                   /\ exported' = NoExport
                   /\ net' = NoNet
              ELSE Proceed("translate", translationCache, cs0, NounsOf(cs0), 1,
                           ~need, need, statusTimer, NoRun, "")
    /\ UNCHANGED <<variant, watch, inputValue, translationCache>>
    /\ callIdle

\* downloadCsvBtn click in part_000, up to the first await that waits for the network
DownloadClickAsync ==
    /\ variant = "part_000"
    /\ ~downloadDisabled
    /\ BagCardinality(runs) < MaxRuns
    /\ LET need == Len(currentStructured) = 0 /\ inputValue # <<>>
           cs0 == IF need THEN Extracted ELSE currentStructured
       IN  /\ callLog' = IF need THEN Logged ELSE callLog
           /\ wordRegexLastIndex' = IF need THEN LastIndexAfterCall ELSE wordRegexLastIndex
           /\ IF Len(cs0) = 0
              THEN /\ currentStructured' = cs0
                   /\ IF need THEN updateUI(cs0) ELSE noUpdateUI
                   /\ translateDisabled' = IF need THEN TRUE ELSE translateDisabled
                   /\ UNCHANGED <<runs, statusText, statusTimer>>
                   /\ exported' = NoExport
                   /\ net' = NoNet
              ELSE Proceed("download", translationCache, cs0, NounsOf(Missing(cs0)), 1,
                           IF need THEN FALSE ELSE translateDisabled, need,
                           statusTimer, NoRun, "")
    /\ UNCHANGED <<variant, watch, inputValue, translationCache>>
    /\ callIdle

\* downloadCsvBtn click in app.js
DownloadClickSync ==
    /\ variant = "app.js"
    /\ ~downloadDisabled
    /\ callLog' = Logged
    /\ wordRegexLastIndex' = LastIndexAfterCall
    /\ LET need == Len(currentStructured) = 0 /\ inputValue # <<>>
           cs0 == IF need THEN Extracted ELSE currentStructured
       IN  IF Len(Extracted) = 0
           THEN UNCHANGED <<currentStructured, outputValue, metaText, downloadDisabled,
                            copyDisabled, copyExcelDisabled, translateDisabled>>
                /\ exported' = NoExport
           ELSE /\ currentStructured' = cs0
                /\ IF need THEN updateUI(cs0) ELSE noUpdateUI
                /\ translateDisabled' = IF need THEN Len(cs0) = 0 ELSE translateDisabled
                /\ exported' = doDownload(cs0)
    /\ UNCHANGED <<variant, watch, inputValue, statusText, statusTimer, translationCache, runs>>
    /\ net' = NoNet
    /\ callIdle

\* downloadCsvBtn click in part_001
DownloadClickFresh ==
    /\ variant = "part_001"
    /\ ~downloadDisabled
    /\ callLog' = Logged
    /\ wordRegexLastIndex' = LastIndexAfterCall
    /\ exported' = IF Len(Extracted) = 0 THEN NoExport ELSE doDownload(Extracted)
    /\ UNCHANGED <<variant, watch, inputValue, outputValue, metaText, statusText, statusTimer,
                   currentStructured, translationCache, translateDisabled,
                   downloadDisabled, copyDisabled, copyExcelDisabled, runs>>
    /\ net' = NoNet
    /\ callIdle

\* copyExcelBtn click; ok: navigator.clipboard.writeText resolves
CopyExcelClick(ok) ==
    /\ ~copyExcelDisabled
    /\ LET need == HasTranslate /\ Len(currentStructured) = 0 /\ inputValue # <<>>
           called == need \/ ~HasTranslate
           cs0 == IF called THEN Extracted ELSE currentStructured
       IN  /\ callLog' = IF called THEN Logged ELSE callLog
           /\ wordRegexLastIndex' = IF called THEN LastIndexAfterCall ELSE wordRegexLastIndex
           /\ IF need
              THEN /\ currentStructured' = cs0
                   /\ updateUI(cs0)
                   /\ translateDisabled' = (Len(cs0) = 0)
              ELSE /\ UNCHANGED <<currentStructured, translateDisabled>>
                   /\ noUpdateUI
           /\ exported' = IF Len(cs0) # 0 /\ ok
                          THEN [kind |-> "tsv", rows |-> RowsOf(cs0),
                                text |-> TsvOf(RowsOf(cs0))]
                          ELSE NoExport
    /\ UNCHANGED <<variant, watch, inputValue, statusText, statusTimer, translationCache, runs>>
    /\ net' = NoNet
    /\ callIdle

\* copyBtn click; ok: navigator.clipboard.writeText resolves
CopyClick(ok) ==
    /\ ~copyDisabled
    /\ exported' = IF outputValue # <<>> /\ ok
                   THEN [kind |-> "text", rows |-> <<outputValue>>,
                         text |-> outputValue]
                   ELSE NoExport
    /\ UNCHANGED <<variant, watch, wordRegexLastIndex, inputValue, outputValue, metaText,
                   statusText, statusTimer, currentStructured, translationCache,
                   translateDisabled, downloadDisabled, copyDisabled,
                   copyExcelDisabled, runs, callLog>>
    /\ net' = NoNet
    /\ callIdle

\* clearBtn click
ClearClick ==
    /\ inputValue' = <<>>
    /\ outputValue' = <<>>
    /\ metaText' = NoMeta
    /\ downloadDisabled' = TRUE
    /\ copyDisabled' = TRUE
    /\ copyExcelDisabled' = TRUE
    /\ UNCHANGED <<variant, watch, wordRegexLastIndex, statusText, statusTimer,
                   currentStructured, translationCache, translateDisabled, runs, callLog>>
    /\ exported' = NoExport
    /\ net' = NoNet
    /\ callIdle

\* the request of handler r is answered with a usable body
FetchSucceeds(r, body) ==
    /\ r.pc = "fetch"
    /\ LET cache == CacheSet(translationCache, r.nouns[r.i], trim(body))
       IN  /\ translationCache' = cache
           /\ Proceed(r.kind, cache, currentStructured, r.nouns, r.i,
                      translateDisabled, FALSE, statusTimer, r, "ok")
    /\ UNCHANGED <<variant, watch, wordRegexLastIndex, inputValue, callLog>>
    /\ callIdle

\* FetchFailsLast whose exception leaves translateNoun and ends the handler
FetchFailsLastAborts(r) ==
    /\ r.pc = "fetch"
    /\ r.attempt = maxAttempts
    /\ runs' = Others(r)
    /\ net' = [NoNet EXCEPT !.kind = r.kind, !.run = r, !.outcome = "failed",
                            !.done = TRUE]
    /\ exported' = NoExport
    /\ UNCHANGED <<variant, watch, wordRegexLastIndex, inputValue, outputValue, metaText,
                   statusText, statusTimer, currentStructured, translationCache,
                   translateDisabled, downloadDisabled, copyDisabled, copyExcelDisabled,
                   callLog>>
    /\ callIdle

\* the request of handler r fails on its last attempt: the catch block
\* records '' and translateNoun returns
FetchFailsLast(r) ==
    /\ r.pc = "fetch"
    /\ r.attempt = maxAttempts
    /\ LET cache == CacheSet(translationCache, r.nouns[r.i], <<>>)
       IN  /\ translationCache' = cache
           /\ Proceed(r.kind, cache, currentStructured, r.nouns, r.i,
                      translateDisabled, FALSE,
                      IF HasStatus THEN TRUE ELSE statusTimer, r, "failed")
    /\ UNCHANGED <<variant, watch, wordRegexLastIndex, inputValue, callLog>>
    /\ callIdle

\* the request of handler r fails with an attempt left: the backoff timer is set
FetchFailsRetry(r) ==
    /\ r.pc = "fetch"
    /\ r.attempt < maxAttempts
    /\ runs' = Others(r) (+)
                SetToBag({[r EXCEPT !.pc = "backoff", !.delay = 300 * r.attempt]})
    /\ net' = [NoNet EXCEPT !.kind = r.kind, !.run = r, !.outcome = "retry"]
    /\ UNCHANGED <<variant, watch, wordRegexLastIndex, inputValue, outputValue, metaText,
                   statusText, statusTimer, currentStructured, translationCache,
                   translateDisabled, downloadDisabled, copyDisabled, copyExcelDisabled,
                   callLog>>
    /\ exported' = NoExport
    /\ callIdle

\* BackoffElapses whose loop does not count its attempts
BackoffElapsesSameAttempt(r) ==
    /\ r.pc = "backoff"
    /\ runs' = Others(r) (+) SetToBag({[r EXCEPT !.pc = "fetch", !.delay = 0]})
    /\ net' = [NoNet EXCEPT !.kind = r.kind, !.run = r,
                            !.sent = << <<r.nouns[r.i], r.attempt>> >>]
    /\ UNCHANGED <<variant, watch, wordRegexLastIndex, inputValue, outputValue, metaText,
                   statusText, statusTimer, currentStructured, translationCache,
                   translateDisabled, downloadDisabled, copyDisabled, copyExcelDisabled,
                   callLog>>
    /\ exported' = NoExport
    /\ callIdle

\* the backoff timer of handler r fires: attempt++ and the loop's test
\* attempt <= maxAttempts.  The next attempt's request is sent; were the test
\* to fail, translateNoun would run off its end and the handler would go on
\* with eng = undefined
BackoffElapses(r) ==
    /\ r.pc = "backoff"
    /\ IF r.attempt + 1 <= maxAttempts
       THEN /\ runs' = Others(r) (+)
                        SetToBag({[r EXCEPT !.pc = "fetch", !.attempt = r.attempt + 1,
                                            !.delay = 0]})
            /\ net' = [NoNet EXCEPT !.kind = r.kind, !.run = r,
                                    !.sent = << <<r.nouns[r.i], r.attempt + 1>> >>]
            /\ UNCHANGED <<outputValue, metaText, statusText, statusTimer,
                           currentStructured, translateDisabled, downloadDisabled,
                           copyDisabled, copyExcelDisabled>>
            /\ exported' = NoExport
       ELSE Proceed(r.kind, translationCache,
                    MapBack(currentStructured, r.nouns[r.i], Undefined), r.nouns,
                    r.i + 1, Len(currentStructured) = 0, TRUE, statusTimer, r,
                    "undefined")
    /\ UNCHANGED <<variant, watch, wordRegexLastIndex, inputValue, translationCache,
                   callLog>>
    /\ callIdle

\* the timer of showStatus fires
StatusTimeout ==
    /\ statusTimer
    /\ statusText' = NoStatus
    /\ statusTimer' = FALSE
    /\ UNCHANGED <<variant, watch, wordRegexLastIndex, inputValue, outputValue, metaText,
                   currentStructured, translationCache, translateDisabled,
                   downloadDisabled, copyDisabled, copyExcelDisabled, runs, callLog>>
    /\ exported' = NoExport
    /\ net' = NoNet
    /\ callIdle

\* the events of src/app.js
Next ==
    \/ \E t \in UITexts : EditInput(t)
    \/ ExtractClick
    \/ TranslateClick
    \/ DownloadClickSync
    \/ \E ok \in BOOLEAN : CopyExcelClick(ok)
    \/ \E ok \in BOOLEAN : CopyClick(ok)
    \/ ClearClick
    \/ \E r \in BagToSet(runs), body \in Responses : FetchSucceeds(r, body)
    \/ \E r \in BagToSet(runs) : FetchFailsLast(r)

\* the events of src/unnamed/part_000
NextRetry ==
    \/ \E t \in UITexts : EditInput(t)
    \/ ExtractClick
    \/ TranslateClick
    \/ DownloadClickAsync
    \/ \E ok \in BOOLEAN : CopyExcelClick(ok)
    \/ \E ok \in BOOLEAN : CopyClick(ok)
    \/ ClearClick
    \/ \E r \in BagToSet(runs), body \in Responses : FetchSucceeds(r, body)
    \/ \E r \in BagToSet(runs) : FetchFailsLast(r)
    \/ \E r \in BagToSet(runs) : FetchFailsRetry(r)
    \/ \E r \in BagToSet(runs) : BackoffElapses(r)
    \/ StatusTimeout

\* the events of src/unnamed/part_000 when the status line is not recorded
NextNet ==
    \/ \E t \in UITexts : EditInput(t)
    \/ ExtractClick
    \/ TranslateClick
    \/ DownloadClickAsync
    \/ \E ok \in BOOLEAN : CopyExcelClick(ok)
    \/ \E ok \in BOOLEAN : CopyClick(ok)
    \/ ClearClick
    \/ \E r \in BagToSet(runs), body \in Responses : FetchSucceeds(r, body)
    \/ \E r \in BagToSet(runs) : FetchFailsLast(r)
    \/ \E r \in BagToSet(runs) : FetchFailsRetry(r)
    \/ \E r \in BagToSet(runs) : BackoffElapses(r)

\* the events of src/unnamed/part_001
NextPlain ==
    \/ \E t \in UITexts : EditInput(t)
    \/ ExtractClick
    \/ DownloadClickFresh
    \/ \E ok \in BOOLEAN : CopyExcelClick(ok)
    \/ \E ok \in BOOLEAN : CopyClick(ok)
    \/ ClearClick

Spec == Init /\ [][Next]_vars

SpecRetry == InitRetry /\ [][NextRetry]_vars

SpecNet == InitNet /\ [][NextNet]_vars

\* the lists of nouns a Translate click on a text of UITexts runs over
TranslateLists ==
    { << <<"h","u","n","d">> >>, << <<"h","u","n","d">>, <<"k","a","t","z","e">> >> }

\* the positions a suspended Translate handler can be in: at a request of
\* the first or the second attempt, or at the backoff timer between them
RunStates ==
    { r \in [kind : {"translate"}, nouns : TranslateLists, i : 1..2, attempt : 1..2,
             pc : {"fetch", "backoff"}, delay : {0, 300}] :
        /\ r.i <= Len(r.nouns)
        /\ r.delay = IF r.pc = "backoff" THEN 300 * r.attempt ELSE 0
        /\ r.pc = "backoff" => r.attempt = 1 }

\* the task that resumes handler r: its request is answered or fails, or its
\* backoff timer fires
Resume(r) ==
    /\ r \in BagToSet(runs)
    /\ \/ \E body \in Responses : FetchSucceeds(r, body)
       \/ FetchFailsLast(r)
       \/ FetchFailsRetry(r)
       \/ BackoffElapses(r)

\* src/unnamed/part_000 when every request of a Translate handler is settled
\* and its backoff timer fires: the event loop then runs the continuation of
\* the handler
SpecFair ==
    InitNet /\ [][NextNet]_vars /\ \A r \in RunStates : WF_vars(Resume(r))

----------------------------------------------------------------------------
(* doDownload on its own: the CSV text of an entry list *)

\* translations as translateNoun stores them (trimmed), with the characters
\* the CSV quoting is about
EnglishSamples ==
    { <<>>,
      <<"d","o","g">>,
      <<"a",DQUOTE,"d">>,
      <<"a",",","d">>,
      <<"a",LF,"d">>,
      <<"a",CR,LF,"d">>,
      <<DQUOTE>>,
      <<DQUOTE,",",LF,DQUOTE,DQUOTE>> }

\* entries as extractStructuredWords makes them, and as the translate loop
\* leaves them
CsvEntries ==
    LET fresh == { BareEntry(<<"h","u","n","d">>),
                   PairedEntry(<<"d","e","r">>, <<"h","u","n","d">>),
                   BareEntry(<<"h","'","-">>) }
    IN  IF HasEnglish
        THEN { [e EXCEPT !.english = en] : e \in fresh, en \in EnglishSamples }
        ELSE fresh

InitCsv ==
    /\ variant \in Variants
    /\ watch = "calls"
    /\ arg = JSString(<<>>)
    /\ pc = "idle"
    /\ matches = <<>>
    /\ items = <<>>
    /\ unique = <<>>
    /\ threw = FALSE
    /\ wordRegexLastIndex = 0
    /\ inputValue = <<>>
    /\ outputValue = <<>>
    /\ metaText = NoMeta
    /\ statusText = NoStatus
    /\ statusTimer = FALSE
    /\ currentStructured \in UNION { [1..n -> CsvEntries] : n \in 0..MaxEntries }
    /\ translationCache = {}
    /\ translateDisabled = FALSE
    /\ downloadDisabled = FALSE
    /\ copyDisabled = FALSE
    /\ copyExcelDisabled = FALSE
    /\ runs = EmptyBag
    /\ exported = NoExport
    /\ net = NoNet
    /\ callLog = {}

\* doDownload(currentStructured), or the same lines of the click handler
CallDoDownload ==
    /\ exported = NoExport
    /\ exported' = doDownload(currentStructured)
    /\ UNCHANGED <<variant, watch, wordRegexLastIndex, inputValue, outputValue, metaText,
                   statusText, statusTimer, currentStructured, translationCache,
                   translateDisabled, downloadDisabled, copyDisabled, copyExcelDisabled,
                   runs, net, callLog>>
    /\ callIdle

SpecCsv == InitCsv /\ [][CallDoDownload]_vars

SpecPlain == InitPlain /\ [][NextPlain]_vars

----------------------------------------------------------------------------
(* Properties of extractStructuredWords, checked under SpecExtract *)

Pair(it) == <<it.article, it.noun>>

\* the call has run its pairing loop
Scanned == pc = "dedup" \/ (pc = "returned" /\ ToBoolean(arg))

\* the call has returned the deduplicated list
Returned == pc = "returned" /\ ToBoolean(arg)

\* the index in its of the first entry with the pair p
FirstIndex(its, p) ==
    CHOOSE k \in 1..Len(its) :
        Pair(its[k]) = p /\ \A j \in 1..(k - 1) : Pair(its[j]) # p

\* C1: the returned sequence holds no two entries with the same
\* (article, noun) pair.
C1_NoDuplicatePairs ==
    pc = "returned" =>
        \A i, j \in 1..Len(unique) : i # j => Pair(unique[i]) # Pair(unique[j])

C1_Witness == Returned /\ Len(unique) >= 2 /\ Len(unique) < Len(items)

\* C2: the returned sequence is the sequence of the first occurrences of the
\* pairs of the emitted entries: every emitted pair is returned, every returned
\* entry is the first emitted entry of its pair, and the returned entries are
\* in the order of those first occurrences.
C2_FirstOccurrencesInOrder ==
    pc = "returned" =>
        /\ \A k \in 1..Len(items) : \E j \in 1..Len(unique) : Pair(unique[j]) = Pair(items[k])
        /\ \A j \in 1..Len(unique) :
              /\ \E k \in 1..Len(items) : Pair(items[k]) = Pair(unique[j])
              /\ unique[j] = items[FirstIndex(items, Pair(unique[j]))]
        /\ \A i, j \in 1..Len(unique) :
              i < j => FirstIndex(items, Pair(unique[i])) < FirstIndex(items, Pair(unique[j]))

\* a pair occurs again after the first occurrence of another pair
C2_Witness ==
    /\ Returned
    /\ \E a, b, c \in 1..Len(items) :
          /\ a < b /\ b < c
          /\ Pair(items[a]) = Pair(items[c])
          /\ Pair(items[a]) # Pair(items[b])
          /\ \A j \in 1..(b - 1) : Pair(items[j]) # Pair(items[b])

\* the number of tokens an entry stands for
Width(it) == IF it.article # <<>> THEN 2 ELSE 1

RECURSIVE WidthSum(_, _)
WidthSum(its, k) == IF k = 0 THEN 0 ELSE Width(its[k]) + WidthSum(its, k - 1)

\* the index of the token at which the scan emitted its[k]
StartOf(its, k) == 1 + WidthSum(its, k - 1)

\* C3: the scan emits the pair (t[i], t[i+1]), lowercased, when lowercased t[i]
\* is a determiner and t[i+1] exists, and resumes at t[i+2]; otherwise it emits
\* the bare entry t[i] and resumes at t[i+1].  So the entries tile the token
\* sequence, and a consumed t[i+1] is neither tested nor emitted on its own.
C3_ScanPairsWithLookahead ==
    Scanned =>
        /\ WidthSum(items, Len(items)) = Len(matches)
        /\ \A k \in 1..Len(items) :
              LET i == StartOf(items, k)
                  w == toLowerCase(matches[i])
              IN  IF w \in ARTICLES /\ i + 1 <= Len(matches)
                  THEN Pair(items[k]) = <<w, toLowerCase(matches[i + 1])>>
                  ELSE Pair(items[k]) = <<(<<>>), w>>

\* a determiner was consumed as the noun of a pair, and a word follows it
C3_Witness ==
    /\ Scanned
    /\ \E k \in 1..Len(items) :
          /\ items[k].article # <<>>
          /\ items[k].noun \in ARTICLES
          /\ k < Len(items)
          /\ items[k + 1].article = <<>>

\* the indexes of the tokens the scan tests as determiners
RECURSIVE ScanPositions(_, _)
ScanPositions(m, i) ==
    IF i > Len(m) THEN {}
    ELSE {i} \cup ScanPositions(m, IF toLowerCase(m[i]) \in ARTICLES /\ i + 1 <= Len(m)
                                   THEN i + 2 ELSE i + 1)

LastIsFreeDeterminer ==
    /\ Len(matches) > 0
    /\ toLowerCase(matches[Len(matches)]) \in ARTICLES
    /\ Len(matches) \in ScanPositions(matches, 1)

\* C4: a determiner that is the last token and was not consumed as the noun
\* of a pair is returned as a bare entry (article '', noun the determiner).
C4_TrailingDeterminerKept ==
    (Returned /\ LastIsFreeDeterminer) =>
        /\ Len(unique) > 0
        /\ Pair(unique[Len(unique)]) = <<(<<>>), toLowerCase(matches[Len(matches)])>>
        /\ unique[Len(unique)].display = toLowerCase(matches[Len(matches)])

C4_Witness == Returned /\ LastIsFreeDeterminer /\ Len(matches) >= 3

\* C5: entries with the same dedup key have the same article and the same
\* noun, so only entries equal in both are dropped as duplicates.
C5_KeyInjective ==
    Scanned =>
        /\ \A i, j \in 1..Len(items) :
              key(items[i]) = key(items[j]) => Pair(items[i]) = Pair(items[j])
        /\ pc = "returned" =>
              \A k \in 1..Len(items) : \E j \in 1..Len(unique) : unique[j] = items[k]

\* a bare entry 'derhund' next to a pair (der, hund), and a bare 'die'
\* next to a pair (die, X)
C5_Witness ==
    /\ Returned
    /\ \E i, j \in 1..Len(unique) :
          /\ unique[i].article = <<>>
          /\ unique[j].article # <<>>
          /\ unique[i].noun = unique[j].article \o unique[j].noun

C5_WitnessBareArticle ==
    /\ Returned
    /\ \E i, j \in 1..Len(unique) :
          /\ unique[i].article = <<>>
          /\ unique[j].article = unique[i].noun

\* C6: every returned entry has a non-empty lowercased noun, an article that
\* is '' or a member of ARTICLES, display = article + ' ' + noun when it has an
\* article and display = noun otherwise, and english '' (part_001, whose
\* entries have no english property, leaves it undefined).
C6_EntriesWellFormed ==
    pc = "returned" =>
        \A k \in 1..Len(unique) :
            LET it == unique[k]
            IN  /\ it.noun # <<>>
                /\ toLowerCase(it.noun) = it.noun
                /\ it.article = <<>> \/ it.article \in ARTICLES
                /\ it.display = IF it.article # <<>>
                                THEN it.article \o <<" ">> \o it.noun
                                ELSE it.noun
                /\ it.english = IF variant = "part_001" THEN Undefined ELSE <<>>

\* a pair whose noun was written with a capital letter
C6_Witness ==
    /\ Returned
    /\ variant = "app.js"
    /\ \E k \in 1..Len(unique) :
          /\ unique[k].article # <<>>
          /\ \E i \in 1..Len(matches) :
                /\ matches[i] # toLowerCase(matches[i])
                /\ toLowerCase(matches[i]) = unique[k].noun

\* C7: the empty string and every non-string argument give the empty
\* sequence, and no exception.
C7_NonStringGivesEmpty ==
    (arg.type # "string" \/ arg.chars = <<>>) =>
        /\ pc # "threw"
        /\ ~threw
        /\ pc = "returned" => unique = <<>>

\* C8: letter case decides nothing: a text and its lowercased form give the
\* same entries; "Hund hund DER Hund" gives bare hund, then (der, hund), and
\* "Der Hund lief." gives (der, hund), then bare lief.
C8_CaseInsensitive ==
    Returned =>
        /\ unique = extractStructuredWords(JSString(toLowerCase(arg.chars)), 0).value
        /\ arg.chars = ExampleHund =>
              [k \in 1..Len(unique) |-> Pair(unique[k])]
                 = << <<(<<>>), <<"h","u","n","d">> >>,
                      << <<"d","e","r">>, <<"h","u","n","d">> >> >>
        /\ arg.chars = ExampleLief =>
              [k \in 1..Len(unique) |-> Pair(unique[k])]
                 = << << <<"d","e","r">>, <<"h","u","n","d">> >>,
                      <<(<<>>), <<"l","i","e","f">> >> >>

C8_Witness == Returned /\ arg.chars = ExampleHund /\ Len(unique) = 2

----------------------------------------------------------------------------
(* Properties of the page *)

\* C9: extractStructuredWords is pure.  Calls on the same text return equal
\* sequences whatever ran in between, every returned entry is fresh (english
\* ''), also when its noun is in translationCache, and a step that calls it
\* leaves translationCache and wordRegex.lastIndex as they were; the call of
\* the CSV handler on a non-empty working set leaves currentStructured as it was.
C9_ExtractIsPure ==
    /\ [](\A a, b \in callLog : a[1] = b[1] => a[2] = b[2])
    /\ [](\A a \in callLog : \A k \in 1..Len(a[2]) : a[2][k].english = <<>>)
    /\ [][callLog' # callLog =>
            /\ translationCache' = translationCache
            /\ wordRegexLastIndex' = wordRegexLastIndex
            /\ (exported'.kind = "csv" /\ currentStructured # <<>>)
                  => currentStructured' = currentStructured]_vars

\* the text was extracted again after its noun was translated: the working
\* set is the logged result, and an entry of it has english '' although the
\* cache holds a translation of its noun
C9_Witness ==
    /\ <<inputValue, currentStructured>> \in callLog
    /\ \E k \in 1..Len(currentStructured) :
          /\ currentStructured[k].english = <<>>
          /\ CacheHas(translationCache, currentStructured[k].noun)
          /\ CacheGet(translationCache, currentStructured[k].noun) # <<>>

\* the requests that have been sent and not yet answered
RequestsInFlight ==
    LET waiting == { r \in BagToSet(runs) : r.pc = "fetch" }
    IN  BagCardinality([r \in waiting |-> CopiesIn(r, runs)])

\* C10: at most one translation request is in flight.
C10_OneRequestAtATime == RequestsInFlight <= 1

----------------------------------------------------------------------------
(* Properties of the translation loop, checked on the page of part_000 *)

\* the elements of a sequence
Range(seq) == { seq[k] : k \in 1..Len(seq) }

\* the noun the resumed handler was waiting for
AwaitedNoun == net.run.nouns[net.run.i]

\* the english fields of the entries of the working set with noun n
EnglishOf(n) ==
    { currentStructured[k].english :
        k \in { j \in 1..Len(currentStructured) : currentStructured[j].noun = n } }

\* C11: a call translateNoun(n) made once n is in the cache sends no request
\* and returns the cached value: a first request is only ever sent for a noun
\* the cache does not hold, a call answered without a request leaves the
\* cached value in the entries of its noun, and the nouns a handler has been
\* through stay in the cache.
C11_CachedNounNotRequested ==
    /\ \A k \in 1..Len(net.sent) :
          net.sent[k][2] = 1 => ~CacheHas(translationCache, net.sent[k][1])
    /\ \A k \in 1..Len(net.hits) :
          /\ CacheHas(translationCache, net.hits[k])
          /\ EnglishOf(net.hits[k]) \subseteq {CacheGet(translationCache, net.hits[k])}
    /\ \A r \in BagToSet(runs) : \A k \in 1..(r.i - 1) :
          CacheHas(translationCache, r.nouns[k])

\* a handler just started found its first noun in the cache, and sent a
\* request for a later one
C11_Witness ==
    /\ net.run = NoRun
    /\ net.hits # <<>>
    /\ net.sent # <<>>
    /\ \E k \in 1..Len(currentStructured) :
          /\ currentStructured[k].noun = net.hits[1]
          /\ currentStructured[k].english # <<>>

\* C12: a call of translateNoun sends at most 2 requests; request k+1 is sent
\* when the backoff timer of 300 ms x k, set after request k failed, fires; a
\* request that succeeds is the last one of its call.
C12_BoundedRetryWithBackoff ==
    /\ \A r \in BagToSet(runs) :
          /\ r.attempt \in 1..2
          /\ r.pc = "backoff" => (r.attempt < 2 /\ r.delay = 300 * r.attempt)
    /\ \A k \in 1..Len(net.sent) :
          /\ net.sent[k][2] \in 1..2
          /\ net.sent[k][2] > 1 =>
                /\ net.run.pc = "backoff"
                /\ net.run.attempt = net.sent[k][2] - 1
                /\ net.run.delay = 300 * net.run.attempt
                /\ AwaitedNoun = net.sent[k][1]
    /\ net.outcome = "retry" =>
          /\ net.run.pc = "fetch"
          /\ net.sent = <<>>
          /\ [net.run EXCEPT !.pc = "backoff", !.delay = 300 * net.run.attempt]
                \in BagToSet(runs)
    /\ net.outcome = "ok" =>
          /\ CacheHas(translationCache, AwaitedNoun)
          /\ \A k \in 1..Len(net.sent) : net.sent[k][1] # AwaitedNoun

\* the second request of a call has just been sent
C12_Witness ==
    /\ net.sent # <<>>
    /\ net.sent[1][2] = 2
    /\ \E r \in BagToSet(runs) : r.pc = "fetch" /\ r.attempt = 2

\* C13: when the last attempt for a noun fails, the entries with that noun
\* have english '', and the handler goes on with its list: every remaining
\* noun up to the one it now waits for was answered from the cache, and a
\* request for that one has been sent; it finishes only when none remains.
C13_FailureIsNotFatal ==
    net.outcome = "failed" =>
        LET r == net.run
        IN  /\ EnglishOf(AwaitedNoun) \subseteq {<<>>}
            /\ IF net.done
               THEN \A k \in (r.i + 1)..Len(r.nouns) : r.nouns[k] \in Range(net.hits)
               ELSE \E q \in BagToSet(runs) :
                      /\ q.kind = r.kind /\ q.nouns = r.nouns
                      /\ q.i > r.i /\ q.pc = "fetch" /\ q.attempt = 1
                      /\ net.sent = << <<q.nouns[q.i], 1>> >>
                      /\ \A k \in (r.i + 1)..(q.i - 1) : r.nouns[k] \in Range(net.hits)

\* the noun of an entry failed, and the handler has sent the request for the next
C13_Witness ==
    /\ net.outcome = "failed"
    /\ ~net.done
    /\ net.sent # <<>>
    /\ EnglishOf(AwaitedNoun) = {<<>>}

\* an entry but for its english field
Shape(it) == <<it.article, it.noun, it.display>>

\* the step ran a translation loop on the working set it found
TranslationStep ==
    net'.kind # "" /\ (net'.run # NoRun \/ currentStructured # <<>>)

\* C15: a step of a translation loop (of the Translate handler or of the
\* download handler) leaves the length of currentStructured, the order of
\* its entries and every entry's article, noun and display as they were.
C15_TranslationChangesOnlyEnglish ==
    [][TranslationStep =>
          /\ Len(currentStructured') = Len(currentStructured)
          /\ \A k \in 1..Len(currentStructured) :
                Shape(currentStructured'[k]) = Shape(currentStructured[k])]_vars

\* a response has been written into one of several entries
C15_Witness ==
    /\ net.outcome = "ok"
    /\ Len(currentStructured) >= 2
    /\ \E k \in 1..Len(currentStructured) : currentStructured[k].english # <<>>
    /\ \E k \in 1..Len(currentStructured) : currentStructured[k].english = <<>>

\* C14: when the last attempt for a noun has failed, the cache holds '' for
\* the noun and the status line shows the error that names it.
C14_FailureRecordedAndShown ==
    net.outcome = "failed" =>
        /\ CacheHas(translationCache, AwaitedNoun)
        /\ CacheGet(translationCache, AwaitedNoun) = <<>>
        /\ statusText = StatusError(AwaitedNoun)

\* C19: when a Translate handler finishes its loop, every entry of
\* currentStructured has the cached translation of its noun as its english.
C19_FinishedRunLeavesAllTranslated ==
    (net.kind = "translate" /\ net.done) =>
        \A k \in 1..Len(currentStructured) :
            /\ CacheHas(translationCache, currentStructured[k].noun)
            /\ currentStructured[k].english
                  = CacheGet(translationCache, currentStructured[k].noun)

\* the (noun, article) pairs of the rows of an export
ExportedPairs == [k \in 1..Len(exported.rows) |-> <<exported.rows[k][2], exported.rows[k][3]>>]

\* C20: the rows of a CSV download or of a copy for Excel are the (noun,
\* article) pairs of the extraction of the input text as it is at the click.
C20_ExportIsExtractionOfInput ==
    exported.kind \in {"csv", "tsv"} =>
        ExportedPairs = [k \in 1..Len(Extracted) |-> <<Extracted[k].noun, Extracted[k].article>>]

----------------------------------------------------------------------------
(* Properties of the CSV text, checked under SpecCsv *)

\* A CSV parser (RFC 4180): fields are separated by commas and records by a
\* line feed or by carriage return and line feed; a field that starts with
\* a quote runs to its closing quote, with "" inside it standing for one
\* quote.  A comma or line feed separates when an even number of quotes
\* precedes it.
Outside(text, p) == Cardinality({ q \in 1..(p - 1) : text[q] = DQUOTE }) % 2 = 0

\* the n-th smallest element of a set of numbers
Nth(S, n) == CHOOSE x \in S : Cardinality({ y \in S : y < x }) = n - 1

\* the pieces <<first, last>> of from..to that the positions in cuts separate
Pieces(cuts, from, to) ==
    [n \in 1..(Cardinality(cuts) + 1) |->
        << IF n = 1 THEN from ELSE Nth(cuts, n - 1) + 1,
           IF n = Cardinality(cuts) + 1 THEN to ELSE Nth(cuts, n) - 1 >>]

\* "" inside a quoted field stands for one quote
RECURSIVE Undouble(_)
Undouble(str) ==
    IF str = <<>> THEN <<>>
    ELSE IF Len(str) >= 2 /\ str[1] = DQUOTE /\ str[2] = DQUOTE
         THEN <<DQUOTE>> \o Undouble(SubSeq(str, 3, Len(str)))
         ELSE <<Head(str)>> \o Undouble(Tail(str))

\* the value of a field as it is written
FieldValue(raw) ==
    IF Len(raw) >= 2 /\ raw[1] = DQUOTE /\ raw[Len(raw)] = DQUOTE
    THEN Undouble(SubSeq(raw, 2, Len(raw) - 1))
    ELSE raw

ParseCsv(text) ==
    LET breaks == { p \in 1..Len(text) : text[p] = LF /\ Outside(text, p) }
        lines == Pieces(breaks, 1, Len(text))
        \* a carriage return before the line feed belongs to the line break
        LineEnd(n) == IF /\ n < Len(lines)
                         /\ lines[n][2] >= lines[n][1]
                         /\ text[lines[n][2]] = CR
                      THEN lines[n][2] - 1 ELSE lines[n][2]
        Fields(n) ==
            LET commas == { p \in lines[n][1]..LineEnd(n) :
                              text[p] = "," /\ Outside(text, p) }
                spans == Pieces(commas, lines[n][1], LineEnd(n))
            IN  [f \in 1..Len(spans) |-> FieldValue(SubSeq(text, spans[f][1], spans[f][2]))]
    IN  [n \in 1..Len(lines) |-> Fields(n)]

\* the row a parser is to find for an entry
RowOfEntry(it) ==
    << IF it.english = Undefined THEN <<>> ELSE it.english, it.noun, it.article, <<>> >>

\* C16: parsing the CSV text of an entry list gives the header row and then
\* one row per entry, in order, with the entry's english, noun and article
\* and an empty ExampleSentence, also when english holds quotes, commas or
\* line breaks.
C16_CsvRoundTrip ==
    exported.kind = "csv" =>
        ParseCsv(exported.text)
           = <<CsvHeader>> \o [k \in 1..Len(currentStructured) |->
                                  RowOfEntry(currentStructured[k])]

\* two entries were exported, one with a quote and one with a line feed and
\* a comma in its english
C16_Witness ==
    /\ exported.kind = "csv"
    /\ Len(currentStructured) = 2
    /\ \E k \in 1..Len(currentStructured[1].english) :
          currentStructured[1].english[k] = DQUOTE
    /\ \E j, k \in 1..Len(currentStructured[2].english) :
          /\ currentStructured[2].english[j] = LF
          /\ currentStructured[2].english[k] = ","

----------------------------------------------------------------------------
(* Properties of the tokens, checked under SpecExtract *)

\* the call has made its list of matches
Tokenized == pc \in {"scan", "dedup"} \/ Returned

\* the positions of the letters that no run of word characters starting at
\* an earlier letter reaches
TokenStarts(text) ==
    { p \in 1..Len(text) :
        /\ IsLetter(text[p])
        /\ ~\E q \in 1..(p - 1) :
              IsLetter(text[q]) /\ \A k \in q..(p - 1) : IsWordTail(text[k]) }

\* the end of the longest run of word characters from p on
TokenEnd(text, p) ==
    CHOOSE e \in p..Len(text) :
        /\ \A k \in p..e : IsWordTail(text[k])
        /\ e = Len(text) \/ ~IsWordTail(text[e + 1])

\* C17: the matches are, from left to right, the longest runs that start at
\* a letter outside every earlier run and go on over letters, combining
\* marks, hyphens and apostrophes.  So a match starts with a letter and holds
\* no digit, blank or other punctuation; a leading hyphen or apostrophe is
\* left out and an inner or trailing one is kept; 'ab1cd' gives 'ab', 'cd'.
C17_TokensAreMaximalRuns ==
    Tokenized =>
        LET text == arg.chars
            starts == TokenStarts(text)
        IN  /\ Len(matches) = Cardinality(starts)
            /\ \A n \in 1..Len(matches) :
                  /\ matches[n] = SubSeq(text, Nth(starts, n), TokenEnd(text, Nth(starts, n)))
                  /\ IsLetter(matches[n][1])
                  /\ \A k \in 1..Len(matches[n]) : IsWordTail(matches[n][k])
            /\ text = ExampleDigit => matches = << <<"a","b">>, <<"c","d">> >>
            /\ text = ExampleMarks =>
                  matches = << <<"U+00DC","U+0308","'">>, <<"d","e","r","'","-">>,
                               <<"d","i","e">> >>

\* a text with a leading hyphen, a mark, a digit between two words, a
\* trailing apostrophe and hyphen, and an apostrophe before a word
C17_Witness == Tokenized /\ arg.chars = ExampleMarks /\ Len(matches) = 3

\* the tokens an entry stands for
TokensOf(it) == IF it.article # <<>> THEN <<it.article, it.noun>> ELSE <<it.noun>>

\* C18: the emitted entries, flattened as article then noun, are the
\* lowercased matches in order; so every lowercased match is the article or
\* the noun of a returned entry, every article and noun of a returned entry
\* is a lowercased match, and there are at most as many returned entries as
\* matches.
C18_NoTokenLostOrInvented ==
    Scanned =>
        LET lowered == [k \in 1..Len(matches) |-> toLowerCase(matches[k])]
        IN  /\ Flatten([k \in 1..Len(items) |-> TokensOf(items[k])]) = lowered
            /\ pc = "returned" =>
                  /\ Range(lowered) = UNION { Range(TokensOf(unique[j])) : j \in 1..Len(unique) }
                  /\ Len(unique) <= Len(matches)

\* pairs and bare entries were emitted, and a duplicate was dropped
C18_Witness ==
    /\ Returned
    /\ Len(matches) >= 4
    /\ Len(unique) < Len(items)
    /\ \E j, k \in 1..Len(unique) : unique[j].article # <<>> /\ unique[k].article = <<>>

----------------------------------------------------------------------------
(* Clear, and the end of a Translate click *)

\* meta.textContent is '' from the page's load or a Clear click until
\* updateUI runs again; extract() always runs updateUI, so nothing has been
\* extracted since
Cleared == metaText = NoMeta

\* the step is a click or an edit made while the input field holds a text:
\* the only steps in which extract() can see a non-empty text (a response
\* that arrives names the handler it resumes in net'.run)
MayExtract == inputValue # <<>> /\ net'.run = NoRun

\* C21: from a Clear click until the next extraction of a non-empty text, no
\* step (a Translate, Copy for Excel or Download CSV click, or a translation
\* response that arrives late) writes an entry to the output field or
\* exports one: the output field stays empty and nothing is exported.
C21_ClearEmptiesWorkingSet ==
    [][(Cleared /\ ~MayExtract) =>
          (outputValue' = <<>> /\ exported'.rows = <<>>)]_vars

\* what translateNoun has resolved to, wherever the page keeps it
Resolved ==
    { e[2] : e \in translationCache } \cup
    { currentStructured[k].english : k \in 1..Len(currentStructured) }

\* the suspended Translate handlers
TranslateRuns == { r \in BagToSet(runs) : r.kind = "translate" }

\* a Translate handler that runs over the list nouns finishes in this step
TranslateFinished(nouns) ==
    net.kind = "translate" /\ net.done /\ net.run.nouns = nouns

\* C22: every Translate click terminates.  When every request of a Translate
\* handler is settled and every backoff timer fires, a suspended Translate
\* handler finishes its loop whatever Extract, Clear, Download CSV and other
\* clicks come in between; the step in which a Translate handler finishes
\* leaves translateBtn enabled; and translateNoun never resolves to
\* undefined: its retry loop never runs off its end.
C22_TranslateClickTerminates ==
    /\ [](TranslateRuns \subseteq RunStates)
    /\ [](Undefined \notin Resolved /\ net.outcome # "undefined")
    /\ [](net.kind = "translate" /\ net.done => ~translateDisabled)
    /\ \A nouns \in TranslateLists :
          (\E r \in TranslateRuns : r.nouns = nouns) ~> TranslateFinished(nouns)

\* a Translate handler finishes on the second noun of its list after a request
\* failed twice, with a Download handler suspended beside it
C22_Witness ==
    /\ TranslateFinished(net.run.nouns) /\ net.outcome = "failed"
    /\ net.run.i = 2 /\ net.run.attempt = 2
    /\ ~translateDisabled
    /\ \E r \in BagToSet(runs) : r.kind = "download"

====
